---- MODULE Spec2Model ----
(***************************************************************************)
(* Model of the two artifacts of the repository:                           *)
(*   - StackedBarChartSVG (the chart builder), a pure function of its      *)
(*     data and options, modelled with the d3 calls it makes (InternSet,   *)
(*     rollup, stack with stackOrderNone/stackOffsetExpand, extent,        *)
(*     scaleLinear, scaleOrdinal, selection.join/attr);                    *)
(*   - msalConfig.system.loggerOptions.loggerCallback (authConfig.js).     *)
(* Quantities are integers; stacked boundaries and pixel positions are     *)
(* exact rationals, with NaN as a separate value (IEEE rounding is not     *)
(* modelled).                                                              *)
(***************************************************************************)
EXTENDS Integers, Sequences, FiniteSets, TLC

VARIABLES
    \* ---- chart builder: inputs
    data,          \* the records, each [cat, ser, q]
    yDomainOpt,    \* option yDomain: [def |-> FALSE] or a supplied array
    zDomainOpt,    \* option zDomain
    heightOpt,     \* option height
    marginTop, marginBottom,
    colors,        \* option colors (the palette)
    \* ---- chart builder: what one call computes
    pc,            \* "start", "filtered", "stacked", then "done" (returned)
                   \* or "error" (threw)
    yDomain, zDomain,  \* the resolved domains (InternSets, in insertion order)
    I,             \* the filtered indices
    height, yRange,
    series,        \* the stacked series, with back-references
    svg,           \* the returned node: viewBox and the groups of rect/image
    color,         \* the returned scales.color (domain and range)
    \* ---- logger callback
    sinks,         \* what each console method has received
    calls,         \* number of loggerCallback calls made
    lastCall       \* the arguments of the last call

vars == <<data, yDomainOpt, zDomainOpt, heightOpt, marginTop, marginBottom,
          colors, pc, yDomain, zDomain, I, height, yRange, series, svg,
          color, sinks, calls, lastCall>>

chartVars == <<data, yDomainOpt, zDomainOpt, heightOpt, marginTop,
               marginBottom, colors, pc, yDomain, zDomain, I, height,
               yRange, series, svg, color>>

logVars == <<sinks, calls, lastCall>>

----------------------------------------------------------------------------
(* Bounds of the model *)

MaxLen == 2        \* at most this many records in data
MaxCalls == 3      \* at most this many loggerCallback calls

(* Option defaults of StackedBarChartSVG *)
DefaultMarginTop == 30
DefaultMarginRight == 20
DefaultMarginBottom == 0
DefaultMarginLeft == 200
DefaultWidth == 640
RowHeight == 25
GlyphCount == 3

(* JavaScript's undefined, where the code indexes with or looks up a missing key *)
NoIndex == 0       \* Map.get(z) of a (category, series) pair without record
NoKey == 0         \* Z[undefined]

----------------------------------------------------------------------------
(* Numbers: exact rationals n/d (d > 0, lowest terms), or NaN *)

Abs(a) == IF a < 0 THEN -a ELSE a

RECURSIVE GCD(_, _)
GCD(a, b) == IF b = 0 THEN a ELSE GCD(b, a % b)

NaN == [nan |-> TRUE, n |-> 0, d |-> 1]

Rat(n, d) ==
    LET g == GCD(Abs(n), Abs(d))
        s == IF d < 0 THEN -1 ELSE 1
    IN  [nan |-> FALSE, n |-> (s * n) \div g, d |-> (s * d) \div g]

Num(k) == [nan |-> FALSE, n |-> k, d |-> 1]

IsNaN(a) == a.nan

Add(a, b) == IF a.nan \/ b.nan THEN NaN ELSE Rat(a.n * b.d + b.n * a.d, a.d * b.d)

Sub(a, b) == IF a.nan \/ b.nan THEN NaN ELSE Rat(a.n * b.d - b.n * a.d, a.d * b.d)

Mul(a, b) == IF a.nan \/ b.nan THEN NaN ELSE Rat(a.n * b.n, a.d * b.d)

\* a / b; the callers guard b # 0 as the code does
Div(a, b) == IF a.nan \/ b.nan \/ b.n = 0 THEN NaN ELSE Rat(a.n * b.d, a.d * b.n)

Less(a, b) == ~a.nan /\ ~b.nan /\ a.n * b.d < b.n * a.d

\* Math.min and Math.abs
MathMin(a, b) == IF a.nan \/ b.nan THEN NaN ELSE IF Less(b, a) THEN b ELSE a

MathAbs(a) == IF a.nan THEN NaN ELSE [a EXCEPT !.n = Abs(a.n)]

----------------------------------------------------------------------------
(* Sequences *)

Range(s) == {s[k] : k \in 1..Len(s)}

\* position of the first occurrence of v in s, 0 when absent
RECURSIVE IndexOf(_, _, _)
IndexOf(s, v, k) ==
    IF k > Len(s) THEN 0 ELSE IF s[k] = v THEN k ELSE IndexOf(s, v, k + 1)

SeqsUpTo(S, n) == UNION {[1..m -> S] : m \in 0..n}

----------------------------------------------------------------------------
(* StackedBarChartSVG: values, domains, filtering, derived height *)

Undefined == [def |-> FALSE, val |-> <<>>]

Supplied(v) == [def |-> TRUE, val |-> v]

\* const X = d3.map(data, x), Y = d3.map(data, y), Z = d3.map(data, z)
\* with the accessors d => d.q, d => d.cat, d => d.ser
X == [k \in 1..Len(data) |-> data[k].q]

Y == [k \in 1..Len(data) |-> data[k].cat]

Z == [k \in 1..Len(data) |-> data[k].ser]

\* new d3.InternSet(values): the distinct values, in first-seen order
RECURSIVE InternSetFrom(_, _, _)
InternSetFrom(s, k, acc) ==
    IF k > Len(s) THEN acc
    ELSE InternSetFrom(s, k + 1,
                       IF s[k] \in Range(acc) THEN acc ELSE Append(acc, s[k]))

\* faulty variant of InternSet: the array as given, duplicates kept
InternSetKeepAll(s) == s

InternSet(s) == InternSetFrom(s, 1, <<>>)

\* if (yDomain === undefined) yDomain = Y; yDomain = new d3.InternSet(yDomain)
ResolveDomain(opt, values) == InternSet(IF opt.def THEN opt.val ELSE values)

\* yDomain.has(Y[i]) && zDomain.has(Z[i])
InDomains(yd, zd, k) == Y[k] \in Range(yd) /\ Z[k] \in Range(zd)

\* d3.range(X.length).filter(...): the kept indices, ascending
RECURSIVE FilterFrom(_, _, _, _)
FilterFrom(yd, zd, k, acc) ==
    IF k > Len(data) THEN acc
    ELSE FilterFrom(yd, zd, k + 1,
                    IF InDomains(yd, zd, k) THEN Append(acc, k) ELSE acc)

\* height = yDomain.size * 25 + marginTop + marginBottom
DerivedHeight(yd) == Len(yd) * RowHeight + marginTop + marginBottom

\* yRange is never supplied in the model: [height - marginBottom, marginTop]
DefaultYRange(h) == <<h - marginBottom, marginTop>>

XRange == <<DefaultMarginLeft, DefaultWidth - DefaultMarginRight>>

----------------------------------------------------------------------------
(* d3.rollup(I, ([i]) => i, i => Y[i], i => Z[i]) *)

\* the group of filtered indices of one (category, series) pair, in input order
Group(y, z) ==
    LET Same(k) == Y[k] = y /\ Z[k] = z
    IN  SelectSeq(I, Same)

\* faulty variant of Reduce: the last index of the group
ReduceLast(g) == g[Len(g)]

\* the reducer ([i]) => i
Reduce(g) == g[1]

\* the keys of the outer map, in insertion order
Rows == InternSet([k \in 1..Len(I) |-> Y[I[k]]])

\* I.get(z) on the inner map of row y
RollupGet(y, z) ==
    LET g == Group(y, z)
    IN  IF g = <<>> THEN NoIndex ELSE Reduce(g)

----------------------------------------------------------------------------
(* d3.stack().keys(zDomain).value(([, I], z) => X[I.get(z)])               *)
(*   .order(d3.stackOrderNone).offset(d3.stackOffsetExpand)                *)

RECURSIVE SumOver(_, _)
SumOver(g, k) == IF k > Len(g) THEN 0 ELSE X[g[k]] + SumOver(g, k + 1)

\* faulty variant of StackValue: the quantities of the pair's records, summed
StackValueSum(y, z) ==
    IF Group(y, z) = <<>> THEN NaN ELSE Num(SumOver(Group(y, z), 1))

\* +X[I.get(z)]: X[undefined] is undefined, and +undefined is NaN
StackValue(y, z) ==
    LET k == RollupGet(y, z)
    IN  IF k = NoIndex THEN NaN ELSE Num(X[k])

\* v || 0
OrZero(v) == IF IsNaN(v) \/ v.n = 0 THEN Num(0) ELSE v

RECURSIVE RowTotalFrom(_, _)
RowTotalFrom(y, k) ==
    IF k > Len(zDomain) THEN Num(0)
    ELSE Add(OrZero(StackValue(y, zDomain[k])), RowTotalFrom(y, k + 1))

\* stackOffsetExpand: y += series[i][j][1] || 0
RowTotal(y) == RowTotalFrom(y, 1)

\* faulty variant of Expand: no normalisation
ExpandRaw(v, total) == v

\* stackOffsetExpand: if (y) series[i][j][1] /= y
Expand(v, total) == IF total.n # 0 THEN Div(v, total) ELSE v

\* faulty variant of NextStart: without the isNaN guard
NextStartUnguarded(lo0, hi0) == hi0

\* stackOffsetNone: s1[j][0] = isNaN(s0[j][1]) ? s0[j][0] : s0[j][1]
NextStart(lo0, hi0) == IF IsNaN(hi0) THEN lo0 ELSE hi0

\* the [x1, x2] of row y in the series 1..k, as stackOffsetNone accumulates them
RECURSIVE Extent(_, _)
Extent(y, k) ==
    LET v == Expand(StackValue(y, zDomain[k]), RowTotal(y))
    IN  IF k = 1 THEN <<Num(0), v>>
        ELSE LET p == Extent(y, k - 1)
                 lo == NextStart(p[1], p[2])
             IN  <<lo, Add(v, lo)>>

\* one tuple of a series: [x1, x2] with data (the row) and i (the back-reference)
Point(y, k) ==
    LET e == Extent(y, k)
    IN  [x1 |-> e[1], x2 |-> e[2], cat |-> y, i |-> RollupGet(y, zDomain[k])]

Stacked ==
    [k \in 1..Len(zDomain) |->
        [key |-> zDomain[k],
         pts |-> [j \in 1..Len(Rows) |-> Point(Rows[j], k)]]]

----------------------------------------------------------------------------
(* Scales *)

\* the numbers of series.flat(2) that d3.extent keeps (it skips NaN)
FlatValues(s) ==
    {v \in UNION {{s[k].pts[j].x1, s[k].pts[j].x2} :
                     k \in DOMAIN s, j \in 1..Len(Rows)} : ~IsNaN(v)}

\* xDomain = d3.extent(series.flat(2)); [undefined, undefined] without values
XDomain(s) ==
    LET V == FlatValues(s)
    IN  IF V = {} THEN [def |-> FALSE, lo |-> NaN, hi |-> NaN]
        ELSE [def |-> TRUE,
              lo |-> CHOOSE v \in V : \A w \in V : ~Less(w, v),
              hi |-> CHOOSE v \in V : \A w \in V : ~Less(v, w)]

\* xScale = d3.scaleLinear(xDomain, xRange); a collapsed domain maps to the
\* middle of the range, an undefined one (or a NaN argument) to NaN
XScale(xd, v) ==
    LET r0 == Num(XRange[1])
        r1 == Num(XRange[2])
    IN  IF ~xd.def \/ IsNaN(v) THEN NaN
        ELSE IF xd.lo = xd.hi THEN Add(r0, Mul(Rat(1, 2), Sub(r1, r0)))
        ELSE Add(r0, Mul(Div(Sub(v, xd.lo), Sub(xd.hi, xd.lo)), Sub(r1, r0)))

\* Z[i], with Z[undefined] undefined
ZAt(k) == IF k = NoIndex THEN NoKey ELSE Z[k]

\* d3.scaleOrdinal's scale(d): an unknown d is pushed onto the domain
OrdinalDomain(domain, d) ==
    IF IndexOf(domain, d, 1) = 0 THEN Append(domain, d) ELSE domain

\* range[i % range.length], i the position of d in the (extended) domain
OrdinalValue(domain, d) ==
    colors[((IndexOf(OrdinalDomain(domain, d), d, 1) - 1) % Len(colors)) + 1]

\* .attr('fill', ([{ i }]) => color(Z[i])): the key looked up for group k
FillKey(s, k) == ZAt(s[k].pts[1].i)

\* the domain of color after the fills of groups 1..k were computed
RECURSIVE ColorDomainAfter(_, _)
ColorDomainAfter(s, k) ==
    IF k = 0 THEN zDomain
    ELSE OrdinalDomain(ColorDomainAfter(s, k - 1), FillKey(s, k))

Fill(s, k) == OrdinalValue(ColorDomainAfter(s, k - 1), FillKey(s, k))

----------------------------------------------------------------------------
(* The scene: one g per series, one rect and one image per tuple *)

Glyphs == <<"/images/sad-button.png", "/images/neutral-button.png",
            "/images/happy-button.png">>

\* an attribute whose value function returned undefined is not set
NoAttr == "undefined"

\* [...][Z[i] - 1]
Href(k) == IF ZAt(k) \in 1..GlyphCount THEN Glyphs[ZAt(k)] ELSE NoAttr

\* x: Math.min(xScale(x1), xScale(x2)); width: Math.abs(xScale(x1) - xScale(x2))
Rect(xd, p) ==
    LET a == XScale(xd, p.x1)
        b == XScale(xd, p.x2)
    IN  [cat |-> p.cat, i |-> p.i,
         x |-> MathMin(a, b), width |-> MathAbs(Sub(a, b))]

\* the image has the x and width of its rect, and the href
Image(xd, p) ==
    LET r == Rect(xd, p)
    IN  [cat |-> p.cat, i |-> p.i, href |-> Href(p.i),
         x |-> r.x, width |-> r.width]

GroupNode(s, xd, k) ==
    [key |-> s[k].key,
     fill |-> Fill(s, k),
     rects |-> [j \in 1..Len(Rows) |-> Rect(xd, s[k].pts[j])],
     images |-> [j \in 1..Len(Rows) |-> Image(xd, s[k].pts[j])]]

\* ([{ i }]) => ... destructures the first tuple of each series: a TypeError
\* when the series have no tuple (no record survived the filter)
Throws(s) == Len(s) > 0 /\ Len(Rows) = 0

NoSvg == [viewBox |-> <<>>, groups |-> <<>>]

SvgNode(s) ==
    LET xd == XDomain(s)
    IN  [viewBox |-> <<0, 0, DefaultWidth, height>>,
         groups |-> [k \in 1..Len(s) |-> GroupNode(s, xd, k)]]

ColorScale(domain) == [domain |-> domain, range |-> colors]

----------------------------------------------------------------------------
(* The call StackedBarChartSVG(data, options), in the order of its body *)

inputs == <<data, yDomainOpt, zDomainOpt, heightOpt, marginTop, marginBottom,
            colors>>

\* "Compute values" to "derive the height": the domains, I, height, yRange
Filter ==
    /\ pc = "start"
    /\ LET yd == ResolveDomain(yDomainOpt, Y)
           zd == ResolveDomain(zDomainOpt, Z)
           h == IF heightOpt.def THEN heightOpt.val ELSE DerivedHeight(yd)
       IN  /\ yDomain' = yd
           /\ zDomain' = zd
           /\ I' = FilterFrom(yd, zd, 1, <<>>)
           /\ height' = h
           /\ yRange' = DefaultYRange(h)
    /\ pc' = "filtered"
    /\ UNCHANGED <<inputs, series, svg, color, logVars>>

\* const series = d3.stack()...(d3.rollup(...)).map(...)
Stack ==
    /\ pc = "filtered"
    /\ series' = Stacked
    /\ pc' = "stacked"
    /\ UNCHANGED <<inputs, yDomain, zDomain, I, height, yRange, svg, color,
                   logVars>>

\* the scales, the scene, and the return (or the TypeError of the fill)
Render ==
    /\ pc = "stacked"
    /\ IF Throws(series)
       THEN /\ pc' = "error"
            /\ svg' = NoSvg
            /\ color' = ColorScale(zDomain)
       ELSE /\ pc' = "done"
            /\ svg' = SvgNode(series)
            /\ color' = ColorScale(ColorDomainAfter(series, Len(series)))
    /\ UNCHANGED <<inputs, yDomain, zDomain, I, height, yRange, series,
                   logVars>>

----------------------------------------------------------------------------
(* loggerCallback(level, message, containsPii) *)

LogLevels == {"Error", "Warning", "Info", "Verbose", "Trace"}

Messages == {"m1", "m2"}

Consoles == {"error", "warn", "info", "debug"}

\* faulty variant of Sink: case Error without its return, falling into case Info
SinkFallThrough(level) ==
    CASE level = "Error" -> {"error", "info"}
      [] level = "Info" -> {"info"}
      [] level = "Verbose" -> {"debug"}
      [] level = "Warning" -> {"warn"}
      [] OTHER -> {}

\* the switch (level): the console method of each case, none without a case
Sink(level) ==
    CASE level = "Error" -> {"error"}
      [] level = "Info" -> {"info"}
      [] level = "Verbose" -> {"debug"}
      [] level = "Warning" -> {"warn"}
      [] OTHER -> {}

\* if (containsPii) return;
Suppressed(containsPii) == containsPii

loggerCallback(level, message, containsPii) ==
    /\ calls < MaxCalls
    /\ calls' = calls + 1
    /\ lastCall' = [level |-> level, message |-> message, pii |-> containsPii]
    /\ sinks' = [c \in Consoles |->
                    IF ~Suppressed(containsPii) /\ c \in Sink(level)
                    THEN Append(sinks[c], message) ELSE sinks[c]]
    /\ UNCHANGED chartVars

----------------------------------------------------------------------------
(* Inputs and specifications *)

Categories == {"A", "B"}

SeriesValues == {1, 2, 4}

Quantities == {-1, 0, 1, 3}

Records == [cat : Categories, ser : SeriesValues, q : Quantities]

YDomainOptions == {Undefined, Supplied(<<"A", "C", "A">>)}

ZDomainOptions == {Undefined, Supplied(<<2, 1, 2>>)}

Tableau10 == <<"#4e79a7", "#f28e2c", "#e15759", "#76b7b2", "#59a14f",
               "#edc949", "#af7aa1", "#ff9da7", "#9c755f", "#bab0ab">>

TwoColors == <<"red", "green">>

\* [height, marginTop, marginBottom, colors]
Options ==
    {<<Undefined, DefaultMarginTop, DefaultMarginBottom, Tableau10>>,
     <<Undefined, DefaultMarginTop, DefaultMarginBottom, TwoColors>>,
     <<Undefined, 10, 5, Tableau10>>,
     <<Supplied(100), DefaultMarginTop, DefaultMarginBottom, Tableau10>>}

\* [yDomain, zDomain, the other options]
Configs == YDomainOptions \X ZDomainOptions \X Options

NoCall == [level |-> "Error", message |-> "m1", pii |-> TRUE]

LogStart ==
    /\ sinks = [c \in Consoles |-> <<>>]
    /\ calls = 0
    /\ lastCall = NoCall

ChartStart ==
    /\ pc = "start"
    /\ yDomain = <<>>
    /\ zDomain = <<>>
    /\ I = <<>>
    /\ height = 0
    /\ yRange = <<0, 0>>
    /\ series = <<>>
    /\ svg = NoSvg
    /\ color = ColorScale(<<>>)

Init ==
    /\ data \in SeqsUpTo(Records, MaxLen)
    /\ \E c \in Configs :
          /\ yDomainOpt = c[1]
          /\ zDomainOpt = c[2]
          /\ heightOpt = c[3][1]
          /\ marginTop = c[3][2]
          /\ marginBottom = c[3][3]
          /\ colors = c[3][4]
    /\ ChartStart
    /\ LogStart

Next == Filter \/ Stack \/ Render

Spec == Init /\ [][Next]_vars

LogInit ==
    /\ data = <<>>
    /\ yDomainOpt = Undefined
    /\ zDomainOpt = Undefined
    /\ heightOpt = Undefined
    /\ marginTop = DefaultMarginTop
    /\ marginBottom = DefaultMarginBottom
    /\ colors = Tableau10
    /\ ChartStart
    /\ LogStart

LogNext ==
    \E level \in LogLevels, message \in Messages, containsPii \in BOOLEAN :
        loggerCallback(level, message, containsPii)

LogSpec == LogInit /\ [][LogNext]_vars

----------------------------------------------------------------------------
(* What the properties read off the inputs and the returned scene *)

Returned == pc = "done"

PlotWidth == Num(XRange[2] - XRange[1])

\* the resolved domains as sets, from the options and the records
CategoryDomain ==
    IF yDomainOpt.def THEN Range(yDomainOpt.val) ELSE {data[k].cat : k \in 1..Len(data)}

SeriesDomain ==
    IF zDomainOpt.def THEN Range(zDomainOpt.val) ELSE {data[k].ser : k \in 1..Len(data)}

Outside(k) == data[k].cat \notin CategoryDomain \/ data[k].ser \notin SeriesDomain

\* the categories and the series values that have a filtered record
RowCats == {data[k].cat : k \in Range(I)}

SeriesWithRecord == {data[k].ser : k \in Range(I)}

\* the filtered records of one (category, series) pair
Colliding(y, z) == {k \in Range(I) : data[k].cat = y /\ data[k].ser = z}

Least(S) == CHOOSE k \in S : \A m \in S : k <= m

Greatest(S) == CHOOSE k \in S : \A m \in S : k >= m

\* the tuple of row y in series k, and its rect in group k
PointOf(k, y) ==
    series[k].pts[CHOOSE j \in DOMAIN series[k].pts : series[k].pts[j].cat = y]

RectOf(k, y) ==
    svg.groups[k].rects[CHOOSE j \in DOMAIN svg.groups[k].rects :
                            svg.groups[k].rects[j].cat = y]

AllRects == UNION {Range(svg.groups[k].rects) : k \in DOMAIN svg.groups}

AllImages == UNION {Range(svg.groups[k].images) : k \in DOMAIN svg.groups}

\* the records the scene refers back to
Retained == {r.i : r \in AllRects} \ {NoIndex}

\* sum of the widths of all rects of row y, from group k on
RECURSIVE WidthSum(_, _)
WidthSum(y, k) ==
    IF k > Len(svg.groups) THEN Num(0)
    ELSE Add(RectOf(k, y).width, WidthSum(y, k + 1))

\* the same, over the rects that have a record
RECURSIVE RecordWidthSum(_, _)
RecordWidthSum(y, k) ==
    IF k > Len(svg.groups) THEN Num(0)
    ELSE IF RectOf(k, y).i = NoIndex THEN RecordWidthSum(y, k + 1)
    ELSE Add(RectOf(k, y).width, RecordWidthSum(y, k + 1))

\* the total of the quantities that row y's segments refer back to
RECURSIVE RowQuantity(_, _)
RowQuantity(y, k) ==
    IF k > Len(series) THEN 0
    ELSE (IF PointOf(k, y).i = NoIndex THEN 0 ELSE data[PointOf(k, y).i].q)
         + RowQuantity(y, k + 1)

\* the series of row y that have a record, and the one placed before series k
Present(y) == {k \in DOMAIN series : PointOf(k, y).i # NoIndex}

Before(y, k) == {m \in Present(y) : m < k}

SegmentLength(p) == Sub(p.x2, p.x1)

\* quantity q as a share of row y's total; the raw q when the total is zero
ShareOf(y, q) ==
    IF RowQuantity(y, 1) # 0 THEN Rat(q, RowQuantity(y, 1)) ELSE Num(q)

SegmentsOf(y, z) ==
    {<<k, j>> \in (DOMAIN series) \X (1..Len(data)) :
        /\ j \in DOMAIN series[k].pts
        /\ series[k].key = z
        /\ series[k].pts[j].cat = y}

RectsOf(y, z) ==
    {<<k, j>> \in (DOMAIN svg.groups) \X (1..Len(data)) :
        /\ j \in DOMAIN svg.groups[k].rects
        /\ svg.groups[k].key = z
        /\ svg.groups[k].rects[j].cat = y}

----------------------------------------------------------------------------
(* C1 *)

\* C1 (as claimed): under the default offset and x-domain, in every category
\* row of the filtered data the widths of the row's rects, one per member of
\* the series-domain, sum to the plot width xRange[1] - xRange[0]; rows whose
\* quantities sum to zero included.
C1_EveryRowFillsWidth ==
    Returned => \A y \in RowCats : WidthSum(y, 1) = PlotWidth

\* C1 (amended): when the retained quantities are non-negative, in every row
\* whose quantities sum to a positive value the widths of the row's rects that
\* have a record sum to the plot width; in a row whose quantities sum to zero
\* they sum to zero; the rect of a pair without record has a NaN width.
C1_PositiveRowsFillWidth ==
    (Returned /\ \A k \in Retained : data[k].q >= 0) =>
        \A y \in RowCats :
            /\ RowQuantity(y, 1) > 0 => RecordWidthSum(y, 1) = PlotWidth
            /\ RowQuantity(y, 1) = 0 => RecordWidthSum(y, 1) = Num(0)
            /\ \A k \in DOMAIN svg.groups :
                  RectOf(k, y).i = NoIndex => IsNaN(RectOf(k, y).width)

C1_Witness ==
    /\ Returned
    /\ \A k \in Retained : data[k].q >= 0
    /\ \E y \in RowCats :
          /\ Cardinality(Present(y)) = 2
          /\ \A k \in Present(y) :
                /\ data[PointOf(k, y).i].q > 0
                /\ Less(Num(0), RectOf(k, y).width)
                /\ Less(RectOf(k, y).width, PlotWidth)

----------------------------------------------------------------------------
(* C2 *)

\* C2 (as claimed): a record whose category or series is outside the domains
\* is not in the filtered index set and no rect, image or row comes from it,
\* and the call completes without raising an error, also when every record is
\* excluded.
C2_OutsideDroppedWithoutError ==
    /\ pc # "error"
    /\ pc \in {"filtered", "stacked", "done"} =>
          \A k \in 1..Len(data) : Outside(k) => k \notin Range(I)
    /\ pc = "done" =>
          /\ \A k \in 1..Len(data) : Outside(k) => k \notin Retained
          /\ \A r \in AllRects \cup AllImages : r.cat \in CategoryDomain

----------------------------------------------------------------------------
(* C3 *)

\* C3 (as claimed): the groups emitted are exactly the series values with a
\* filtered record, and a (category, series) pair without filtered record has
\* no rect and no image.
C3_GroupsAreSeriesWithRecords ==
    Returned =>
        /\ {svg.groups[k].key : k \in DOMAIN svg.groups} = SeriesWithRecord
        /\ \A r \in AllRects \cup AllImages : r.i # NoIndex

----------------------------------------------------------------------------
(* C4 *)

\* C4: when several filtered records share a (category, series) pair, the
\* output has exactly one segment (and one rect) for the pair, referring back
\* to one of these records, and its length is that single record's quantity
\* (as a share of the row), not an aggregate of the colliding records.
C4_OneSegmentPerCollidingPair ==
    Returned =>
        \A y \in RowCats, z \in SeriesWithRecord :
            Cardinality(Colliding(y, z)) >= 2 =>
                /\ Cardinality(SegmentsOf(y, z)) = 1
                /\ Cardinality(RectsOf(y, z)) = 1
                /\ \A kj \in SegmentsOf(y, z) :
                      LET p == series[kj[1]].pts[kj[2]]
                      IN  /\ p.i \in Colliding(y, z)
                          /\ SegmentLength(p) = ShareOf(y, data[p.i].q)

C4_Witness ==
    /\ Returned
    /\ \E y \in RowCats, z \in SeriesWithRecord :
          /\ Cardinality(Colliding(y, z)) >= 2
          /\ \E a, b \in Colliding(y, z) : data[a].q # data[b].q
          /\ Cardinality(RectsOf(y, z)) = 1

----------------------------------------------------------------------------
(* C5 *)

\* C5 (as claimed): when a filtered record has a series value outside
\* {1, 2, 3}, the call raises and returns nothing, so no returned scene has
\* such a record or an image without href.
C5_OutOfRangeSeriesRaises ==
    Returned =>
        /\ \A k \in Range(I) : data[k].ser \in 1..GlyphCount
        /\ \A k \in Retained : \A im \in AllImages : im.i = k => im.href # NoAttr

----------------------------------------------------------------------------
(* C6 *)

\* C6: when height is omitted, the height (of the viewBox, and of the default
\* row range) is (number of distinct members of the category-domain) * 25 +
\* marginTop + marginBottom, and the row range is
\* [height - marginBottom, marginTop].
C6_DerivedHeight ==
    (pc # "start" /\ ~heightOpt.def) =>
        /\ height = Cardinality(CategoryDomain) * RowHeight + marginTop + marginBottom
        /\ yRange = <<height - marginBottom, marginTop>>
        /\ Returned => svg.viewBox = <<0, 0, DefaultWidth, height>>

C6_Witness ==
    /\ Returned
    /\ ~heightOpt.def
    /\ yDomainOpt.def
    /\ Len(yDomainOpt.val) > Cardinality(CategoryDomain)
    /\ marginBottom > 0
    /\ height = 2 * RowHeight + marginTop + marginBottom

----------------------------------------------------------------------------
(* C7 *)

NamedLevels == {"Error", "Warning", "Info", "Verbose"}

MatchingConsole(level) ==
    CASE level = "Error" -> "error"
      [] level = "Warning" -> "warn"
      [] level = "Info" -> "info"
      [] level = "Verbose" -> "debug"

----------------------------------------------------------------------------
(* C8 *)

\* C8 (as claimed): the returned color mapping has the series-domain as its
\* domain and maps its k-th member to palette[k mod palette length], whatever
\* the records, and the fill of each series' group is that series' color.
C8_FillIsSeriesColor ==
    Returned =>
        /\ Range(color.domain) = SeriesDomain
        /\ Len(svg.groups) = Len(zDomain)
        /\ \A k \in DOMAIN svg.groups :
              /\ svg.groups[k].key = zDomain[k]
              /\ svg.groups[k].fill = colors[((k - 1) % Len(colors)) + 1]

----------------------------------------------------------------------------
(* C9 *)

\* what C9 says of the segment of series k in row y, given the length expected
SegmentPlaced(y, k, length) ==
    LET p == PointOf(k, y)
    IN  /\ p.i \in Range(I)
        /\ data[p.i].cat = y
        /\ data[p.i].ser = zDomain[k]
        /\ series[k].key = zDomain[k]
        /\ p.x1 = IF Before(y, k) = {} THEN Num(0)
                  ELSE PointOf(Greatest(Before(y, k)), y).x2
        /\ ~IsNaN(p.x2)
        /\ SegmentLength(p) = length

\* C9 (as claimed): in every row the segments lie edge to edge in
\* series-domain order, the first from 0, each with its record's quantity
\* divided by the row's total as length, and a back-reference to a record of
\* its category and series.
C9_EdgeToEdgeShares ==
    Returned =>
        \A y \in RowCats : \A k \in Present(y) :
            /\ RowQuantity(y, 1) # 0
            /\ SegmentPlaced(y, k, Rat(data[PointOf(k, y).i].q, RowQuantity(y, 1)))

\* C9 (amended): the same in every row whose total is not zero; in a row whose
\* total is zero the segments lie edge to edge with their raw quantities as
\* lengths.
C9_EdgeToEdgeNonZeroRows ==
    Returned =>
        /\ Len(series) = Len(zDomain)
        /\ \A y \in RowCats : \A k \in Present(y) :
              SegmentPlaced(y, k, ShareOf(y, data[PointOf(k, y).i].q))

C9_Witness ==
    /\ Returned
    /\ \E y \in RowCats : \E k, m \in Present(y) :
          /\ k < m
          /\ data[PointOf(k, y).i].q = 3
          /\ data[PointOf(m, y).i].q = 1
          /\ SegmentLength(PointOf(k, y)) = Rat(3, 4)
          /\ SegmentLength(PointOf(m, y)) = Rat(1, 4)
          /\ PointOf(m, y).x1 = PointOf(k, y).x2

----------------------------------------------------------------------------
(* C10 *)

\* C10 (as claimed): of the filtered records colliding on a (category,
\* series) pair, the segment keeps the last one in input order.
C10_LastCollidingRetained ==
    Returned =>
        \A y \in RowCats, z \in SeriesWithRecord :
            Cardinality(Colliding(y, z)) >= 2 =>
                \A kj \in SegmentsOf(y, z) :
                    LET p == series[kj[1]].pts[kj[2]]
                    IN  /\ p.i = Greatest(Colliding(y, z))
                        /\ SegmentLength(p) = ShareOf(y, data[Greatest(Colliding(y, z))].q)

\* C10 (amended): the segment keeps the first of the colliding records in
\* input order: its back-reference (also on the rect and the image) and its
\* quantity.
C10_FirstCollidingRetained ==
    Returned =>
        \A y \in RowCats, z \in SeriesWithRecord :
            Cardinality(Colliding(y, z)) >= 2 =>
                /\ \A kj \in SegmentsOf(y, z) :
                      LET p == series[kj[1]].pts[kj[2]]
                      IN  /\ p.i = Least(Colliding(y, z))
                          /\ SegmentLength(p) = ShareOf(y, data[Least(Colliding(y, z))].q)
                /\ \A kj \in RectsOf(y, z) :
                      /\ svg.groups[kj[1]].rects[kj[2]].i = Least(Colliding(y, z))
                      /\ svg.groups[kj[1]].images[kj[2]].i = Least(Colliding(y, z))

C10_Witness ==
    /\ Returned
    /\ \E y \in RowCats, z \in SeriesWithRecord :
          /\ Cardinality(Colliding(y, z)) >= 2
          /\ data[Least(Colliding(y, z))].q # data[Greatest(Colliding(y, z))].q
          /\ \E kj \in RectsOf(y, z) :
                svg.groups[kj[1]].rects[kj[2]].i = Least(Colliding(y, z))

====
